---- MODULE Spec2Model ----
(***************************************************************************)
(* Birdwave.fm (src/script.js): the generative-audio engine.               *)
(*   - findBestSliceTime: sliding-window energy peak detection             *)
(*   - snapToScale: pitch quantisation                                     *)
(*   - playProduction / stopPlay / selectBird / timers: the life cycle of  *)
(*     the audio graph on the shared Tone.Transport                        *)
(*   - estimateBPM, selectBird / nextTrack / previousTrack, the choice of  *)
(*     the arrangement variant, the sequencer loops of createAttentionLike *)
(*   - fetchWithTimeout, createSampleHook's startHook / stopHook / dispose *)
(* Nine specifications share the module: Spec (life cycle), SpecSlice      *)
(* (slice detection on bounded buffers), SpecSnap (snapToScale on bounded  *)
(* inputs), SpecBpm (estimateBPM on bounded labels), SpecNav (navigation   *)
(* over a catalog), SpecArr (variant per catalog position), SpecSeq (the   *)
(* loop callbacks on the Transport clock), SpecFetch (fetchWithTimeout)    *)
(* and SpecHook (the sample hook's loop beside the sequencer).             *)
(***************************************************************************)
EXTENDS Integers, Sequences, FiniteSets, TLC

VARIABLES
  nowPlaying,      \* script.js:22  the selected track, 0 for null
  isPlaying,       \* script.js:23
  activeTrack,     \* script.js:24  0 for null, else the play request whose {styleInstance, master} it references
  transportState,  \* Tone.Transport.state
  scheduled,       \* loop events on the Transport timeline: set of <<request, loop>>
  live,            \* per play request: the nodes and loops it allocated and nobody disposed
  started,         \* per play request: its free-running sources (wobble LFO, vinyl noise) that run
  pc,              \* per play request: where its playProduction invocation stands
  call,            \* per play request: what it read and how it was requested
  timers,          \* the two startup timers of DOMContentLoaded
  lastStop,        \* history of the last step: a stop click and on what, or a player load that failed
  slice,           \* SpecSlice: one run of findBestSliceTime
  snap,            \* SpecSnap: one run of snapToScale
  est,             \* SpecBpm: one run of estimateBPM
  nav,             \* SpecNav: the selection moved by selectBird, nextTrack, previousTrack
  arr,             \* SpecArr: the arrangement variants playProduction built, per track
  seq,             \* SpecSeq: the sequencer loops of one arrangement on the Transport
  fetcher,         \* SpecFetch: one call of fetchWithTimeout
  hook             \* SpecHook: one sample hook of createSampleHook

pvars == <<nowPlaying, isPlaying, activeTrack, transportState, scheduled, live, started, pc, call, timers, lastStop>>
vars == <<nowPlaying, isPlaying, activeTrack, transportState, scheduled, live, started, pc, call, timers, lastStop, slice, snap, est, nav, arr, seq, fetcher, hook>>

----------------------------------------------------------------------------
(* Bounds of the model *)

\* tracks in the catalog (recordings)
NTracks == 2
\* playProduction invocations in one run
MaxReq == 2
\* longest decoded buffer, in samples
MaxLen == 4
\* largest sample magnitude (amplitudes are quantised to integers)
MaxAmp == 2
\* largest semitone offset fed to snapToScale, either side of 0
MaxSemi == 14
\* longest scale interval list fed to snapToScale, the default scale apart
MaxScaleLen == 2
\* longest recording fed to estimateBPM, in whole minutes
MaxMinutes == 2
\* Transport time the sequencer runs for, in sixteenth notes
MaxSixteenths == 32
\* largest catalog of SpecNav and SpecArr, in tracks
MaxCatalog == 6
\* largest `retries` option given to fetchWithTimeout
MaxRetries == 3

----------------------------------------------------------------------------
(* Times are rationals num/den (seconds), kept exact *)

Rat(n, d) == [num |-> n, den |-> d]

RatEq(a, b) == a.num * b.den = b.num * a.den

\* Math.max(0, x) on a rational with positive denominator
RatMax0(a) == IF a.num < 0 THEN Rat(0, 1) ELSE a

Min(a, b) == IF a < b THEN a ELSE b

Abs(x) == IF x < 0 THEN -x ELSE x

----------------------------------------------------------------------------
(* findBestSliceTime, script.js:104-134 *)

\* the msWindow playProduction passes (and the default parameter)
MsWindow == 120

\* windowSamples = Math.floor((msWindow / 1000) * sampleRate)
WindowSamples(msWindow, sampleRate) == (msWindow * sampleRate) \div 1000

\* channel[i] with the code's 0-based index
At(channel, i) == channel[i + 1]

\* first loop: running += s * s for i < Math.min(windowSamples, channel.length)
RECURSIVE InitialEnergy(_, _, _)
InitialEnergy(channel, n, i) ==
  IF i >= n THEN 0
  ELSE At(channel, i) * At(channel, i) + InitialEnergy(channel, n, i + 1)

\* second loop: for (i = windowSamples; i < channel.length; i++), returns bestPos
RECURSIVE SlideFrom(_, _, _, _, _, _)
SlideFrom(channel, w, i, running, bestEnergy, bestPos) ==
  IF i >= Len(channel) THEN bestPos
  ELSE LET r1 == running + At(channel, i) * At(channel, i)
           r2 == r1 - At(channel, i - w) * At(channel, i - w)
       IN IF r2 > bestEnergy
          THEN SlideFrom(channel, w, i + 1, r2, r2, i - w)
          ELSE SlideFrom(channel, w, i + 1, r2, bestEnergy, bestPos)

\* the end of the best window reported instead of its start
BestPosWindowEnd(channel, w) ==
  LET e0 == InitialEnergy(channel, Min(w, Len(channel)), 0)
  IN SlideFrom(channel, w, w, e0, e0, 0) + w

\* the sample index of the best window, as the two loops compute it
BestPos(channel, w) ==
  LET e0 == InitialEnergy(channel, Min(w, Len(channel)), 0)
  IN SlideFrom(channel, w, w, e0, e0, 0)

\* the try block: decode succeeded, returns Math.max(0, bestPos / sampleRate)
SliceTimeDecoded(channel, sampleRate, msWindow) ==
  RatMax0(Rat(BestPos(channel, WindowSamples(msWindow, sampleRate)), sampleRate))

\* the catch block: fetch or decode failed, returns 0
SliceTimeOnFailure == Rat(0, 1)

\* how the promise of findBestSliceTime settles; ok = fetch and decode succeeded.
\* Both the try and the catch return, so it never rejects.
FindBestSliceTime(ok, channel, sampleRate, msWindow) ==
  [rejected |-> FALSE,
   value |-> IF ok THEN SliceTimeDecoded(channel, sampleRate, msWindow) ELSE SliceTimeOnFailure]

----------------------------------------------------------------------------
(* snapToScale, script.js:89-101 *)

DefaultScale == <<0, 2, 3, 5, 7, 8, 10>>

\* for (let deg of scale) { ... if (d < bestDiff) ... }, returns best
RECURSIVE SnapLoop(_, _, _, _, _, _)
SnapLoop(midi, base, scale, k, best, bestDiff) ==
  IF k > Len(scale) THEN best
  ELSE LET note == base + scale[k]
           d == Abs(midi - note)
       IN IF d < bestDiff
          THEN SnapLoop(midi, base, scale, k + 1, note, d)
          ELSE SnapLoop(midi, base, scale, k + 1, best, bestDiff)

\* the octave band taken with truncation toward zero instead of Math.floor
snapToScaleTrunc(semitone, rootMidi, scale) ==
  LET midi == 60 + semitone
      diff == midi - rootMidi
      octave == IF diff < 0 THEN 0 - ((0 - diff) \div 12) ELSE diff \div 12
      base == rootMidi + octave * 12
      best0 == base + scale[1]
  IN SnapLoop(midi, base, scale, 1, best0, Abs(midi - best0)) - 60

snapToScale(semitone, rootMidi, scale) ==
  LET midi == 60 + semitone
      octave == (midi - rootMidi) \div 12
      base == rootMidi + octave * 12
      best0 == base + scale[1]
  IN SnapLoop(midi, base, scale, 1, best0, Abs(midi - best0)) - 60

----------------------------------------------------------------------------
(* estimateBPM, script.js:77-87 *)

\* a length label is null or a string, kept as the list of its characters
NullLabel == [isNull |-> TRUE, chars |-> <<>>]
Str(chars) == [isNull |-> FALSE, chars |-> chars]

Digits == <<"0", "1", "2", "3", "4", "5", "6", "7", "8", "9">>
IsDigit(c) == \E i \in 1..Len(Digits) : Digits[i] = c
DigitVal(c) == (CHOOSE i \in 1..Len(Digits) : Digits[i] = c) - 1

\* length.split(':')
RECURSIVE SplitColon(_)
SplitColon(chars) ==
  IF \A i \in 1..Len(chars) : chars[i] # ":"
  THEN <<chars>>
  ELSE LET i == CHOOSE i \in 1..Len(chars) : chars[i] = ":" /\ \A j \in 1..(i - 1) : chars[j] # ":"
       IN <<SubSeq(chars, 1, i - 1)>> \o SplitColon(SubSeq(chars, i + 1, Len(chars)))

\* parts[i] of a JavaScript array (i from 0); undefined reads as a text without digits
PartAt(parts, i) == IF i + 1 <= Len(parts) THEN parts[i + 1] ELSE <<>>

RECURSIVE DigitPrefix(_)
DigitPrefix(text) ==
  IF Len(text) = 0 \/ ~IsDigit(text[1]) THEN <<>> ELSE <<text[1]>> \o DigitPrefix(Tail(text))

RECURSIVE DecimalValue(_)
DecimalValue(ds) ==
  IF Len(ds) = 0 THEN 0 ELSE 10 * DecimalValue(SubSeq(ds, 1, Len(ds) - 1)) + DigitVal(ds[Len(ds)])

\* parseInt(text, 10): the value of the leading decimal digits, NaN when there are none
ParseInt(text) ==
  LET ds == DigitPrefix(text)
  IN IF Len(ds) = 0 THEN [nan |-> TRUE, value |-> 0] ELSE [nan |-> FALSE, value |-> DecimalValue(ds)]

\* x || 0 on the result of parseInt
OrZero(x) == IF x.nan \/ x.value = 0 THEN 0 ELSE x.value

\* the thresholds compared with <= instead of <
estimateBPMInclusive(length) ==
  IF length.isNull \/ Len(length.chars) = 0 THEN 75
  ELSE LET parts == SplitColon(length.chars)
           minutes == OrZero(ParseInt(PartAt(parts, 0)))
           seconds == OrZero(ParseInt(PartAt(parts, 1)))
           totalSeconds == (minutes * 60) + seconds
       IN IF totalSeconds <= 30 THEN 95
          ELSE IF totalSeconds <= 60 THEN 85
          ELSE IF totalSeconds <= 120 THEN 75
          ELSE 65

estimateBPM(length) ==
  IF length.isNull \/ Len(length.chars) = 0 THEN 75
  ELSE LET parts == SplitColon(length.chars)
           minutes == OrZero(ParseInt(PartAt(parts, 0)))
           seconds == OrZero(ParseInt(PartAt(parts, 1)))
           totalSeconds == (minutes * 60) + seconds
       IN IF totalSeconds < 30 THEN 95
          ELSE IF totalSeconds < 60 THEN 85
          ELSE IF totalSeconds < 120 THEN 75
          ELSE 65

----------------------------------------------------------------------------
(* The catalog, script.js:848-866 *)

\* list.findIndex(b => b.id === id), 0-based, -1 when absent
FindIndex(list, id) ==
  IF \E i \in 1..Len(list) : list[i] = id
  THEN (CHOOSE i \in 1..Len(list) : list[i] = id) - 1
  ELSE -1

\* Math.max(0, list.findIndex(...))
BirdIndexIn(list, id) == IF FindIndex(list, id) < 0 THEN 0 ELSE FindIndex(list, id)

\* the variant without wrap-around: positions past the last variant all get the last
StyleIndexClamped(birdIndex) == IF birdIndex < 4 THEN birdIndex ELSE 4

\* const styleIndex = birdIndex % 5
StyleIndexOf(birdIndex) == birdIndex % 5

\* nextTrack stopping at the end of the list
NextIndexNoWrap(currentIndex, length) ==
  IF currentIndex + 1 < length THEN currentIndex + 1 ELSE currentIndex

\* const nextIndex = (currentIndex + 1) % filteredRecordings.length
NextIndex(currentIndex, length) == (currentIndex + 1) % length

\* const prevIndex = currentIndex === 0 ? filteredRecordings.length - 1 : currentIndex - 1
PrevIndex(currentIndex, length) == IF currentIndex = 0 THEN length - 1 ELSE currentIndex - 1

Tracks == 1..NTracks

\* recordings, in catalog order
recordings == [i \in 1..NTracks |-> i]

\* the species names compare in the reverse of the catalog order
SpeciesRank(t) == NTracks + 1 - t

\* filteredRecordings = [...recordings].sort(by species)
filteredRecordings == [i \in 1..NTracks |-> CHOOSE t \in Tracks : SpeciesRank(t) = i]

\* filteredRecordings.findIndex(b => b.id === id), 0-based, -1 when absent
DisplayIndex(id) == FindIndex(filteredRecordings, id)

\* Math.max(0, recordings.findIndex(b => String(b.id) === String(nowPlaying.id)))
BirdIndex(id) == BirdIndexIn(recordings, id)

\* const first = filteredRecordings[0]
First == filteredRecordings[1]

\* the decoded audio of a track: its sample rate (9 Hz: a one-sample window) and channel data
TrackSampleRate == 9
TrackChannel(t) == [i \in 1..MaxLen |-> IF i = ((t + 1) % MaxLen) + 1 THEN MaxAmp ELSE 0]

----------------------------------------------------------------------------
(* The audio graph one playProduction invocation builds *)

Req == 1..MaxReq

\* createMasterBus, script.js:175-199
MasterNodes == {"comp", "low", "sat", "reverb", "limiter", "wobble", "vinyl", "vFilt", "vGain"}
\* wobble = new Tone.LFO(...).start(); vinyl.start()
MasterSources == {"wobble", "vinyl"}

\* createAttentionLike up to the await of createSampleHook's player.load(), script.js:232-245, 144
VoicesBeforeLoad == {"pad", "padGain", "lead", "bass", "player"}
\* createSampleHook after player.load(), script.js:146-149
HookNodes == {"ampEnv", "gain"}
\* drumsKit, script.js:223-228
KitNodes == {"kick", "snare", "hat"}
\* the four Tone.Loop of createAttentionLike, script.js:250-275
SeqLoops == {"drumLoop", "bassLoop", "chordLoop", "melodyLoop"}
\* startHook, script.js:152-163
HookLoops == {"hookLoop"}

AllLoops == SeqLoops \cup HookLoops

\* the default of `let sliceTime = 0.3`, script.js:334
DefaultSliceTime == Rat(3, 10)

Roots == <<60, 62, 64, 65, 67>>

----------------------------------------------------------------------------
(* The engine state as one value, so that handlers compose *)

Cur == [nowPlaying |-> nowPlaying, isPlaying |-> isPlaying, activeTrack |-> activeTrack,
        transportState |-> transportState, scheduled |-> scheduled, live |-> live,
        started |-> started]

Becomes(s) ==
  /\ nowPlaying' = s.nowPlaying
  /\ isPlaying' = s.isPlaying
  /\ activeTrack' = s.activeTrack
  /\ transportState' = s.transportState
  /\ scheduled' = s.scheduled
  /\ live' = s.live
  /\ started' = s.started

\* Tone.Transport.stop(); Tone.Transport.cancel()
TransportStopCancel(s) == [s EXCEPT !.transportState = "stopped", !.scheduled = {}]

\* styleInstance.stop(), script.js:288-291: each loop stop()+dispose(), hook.stopHook()
StyleStop(s, a) ==
  [s EXCEPT !.scheduled = {e \in @ : e[1] # a},
            !.live[a] = @ \ AllLoops]

\* styleInstance.dispose(), script.js:292-295, 170
StyleDisposes == {"player", "ampEnv", "gain", "pad", "lead", "bass", "padGain"}
StyleDispose(s, a) == [s EXCEPT !.live[a] = @ \ StyleDisposes]

\* script.js:382-388: low, sat, reverb, limiter, comp are disposed; vinylSource and wobble are stopped
MasterDisposes == {"low", "sat", "reverb", "limiter", "comp"}
MasterRelease(s, a) ==
  [s EXCEPT !.live[a] = @ \ MasterDisposes,
            !.started[a] = @ \ {"vinyl", "wobble"}]

\* stopPlay without line 394: it leaves the Transport to the loops' own stop()
stopPlayNoTransport(s) ==
  LET a == s.activeTrack
      s1 == IF a # 0
            THEN [MasterRelease(StyleDispose(StyleStop(s, a), a), a) EXCEPT !.activeTrack = 0]
            ELSE s
  IN [s1 EXCEPT !.isPlaying = FALSE]

\* stopPlay, script.js:375-406
stopPlay(s) ==
  LET a == s.activeTrack
      s1 == IF a # 0
            THEN [MasterRelease(StyleDispose(StyleStop(s, a), a), a) EXCEPT !.activeTrack = 0]
            ELSE s
  IN [TransportStopCancel(s1) EXCEPT !.isPlaying = FALSE]

\* a catch that reports the error and forgets stopPlay()
CatchHandlerNoStop(s) == s

\* the catch of playProduction, script.js:368-372: handleError(...); stopPlay()
CatchHandler(s) == stopPlay(s)

----------------------------------------------------------------------------
(* playProduction, script.js:322-373, cut at its awaits                     *)
(*                                                                         *)
(* An invocation is suspended at `await Tone.start()` (pc "start"), at      *)
(* `await findBestSliceTime(...)` (pc "slice") and at `await player.load()` *)
(* inside createSampleHook (pc "load"); each settles in a task of its own,  *)
(* so handlers and other invocations interleave exactly there.  The code    *)
(* between two of these awaits, the returns of the nested async functions   *)
(* included, runs in one microtask checkpoint: one step.                    *)
(* A Tone.Loop started with start(0) is an event on the Transport timeline  *)
(* (scheduled); Transport.cancel() clears the timeline, Loop.stop() and     *)
(* Loop.dispose() remove the loop's own event.                              *)

InFlight == {r \in Req : pc[r] \in {"start", "slice", "load"}}

HasFree == \E r \in Req : pc[r] = "idle"
NextReq == CHOOSE r \in Req : pc[r] = "idle" /\ \A q \in Req : pc[q] = "idle" => r <= q

NoCall == [track |-> 0, via |-> "none", prevActive |-> 0, sup |-> {},
           detectOk |-> TRUE, sliceTime |-> DefaultSliceTime, semitone |-> 0, style |-> 0]

\* the call up to `await Tone.start()`; s is the state the caller left, a0 the graph
\* activeTrack referenced when the handler began
PlayCall(s, how, a0) ==
  /\ HasFree
  /\ s.nowPlaying # 0
  /\ pc' = [pc EXCEPT ![NextReq] = "start"]
  /\ call' = [call EXCEPT ![NextReq] = [NoCall EXCEPT !.via = how, !.prevActive = a0, !.sup = InFlight]]
  /\ Becomes(s)

\* Tone.start() resolved: script.js:326-335 up to `await findBestSliceTime(...)`
AfterToneStart(s, r) ==
  LET s1 == TransportStopCancel(s)
  IN [s1 EXCEPT !.live[r] = @ \cup MasterNodes, !.started[r] = @ \cup MasterSources]

ResumeStart(r) ==
  /\ pc[r] = "start"
  /\ Becomes(AfterToneStart(Cur, r))
  /\ pc' = [pc EXCEPT ![r] = "slice"]
  /\ call' = [call EXCEPT ![r].track = nowPlaying]
  /\ UNCHANGED <<timers, slice, snap, est, nav, arr, seq, fetcher, hook>>
  /\ lastStop' = "none"

\* Tone.start() rejected: the catch runs
ToneStartRejects(r) ==
  /\ pc[r] = "start"
  /\ Becomes(CatchHandler(Cur))
  /\ pc' = [pc EXCEPT ![r] = "failed"]
  /\ UNCHANGED <<call, timers, slice, snap, est, nav, arr, seq, fetcher, hook>>
  /\ lastStop' = "none"

\* the root taken as roots[0] for every track
SemitoneShiftFixedRoot(birdIndex) ==
  LET rootMidi == Roots[1]
  IN snapToScale((rootMidi + 12) - 60, rootMidi, DefaultScale)

\* script.js:337-343: rootMidi, targetMidi, sampleBaseMidi, snapped
SemitoneShiftAt(birdIndex) ==
  LET rootMidi == Roots[(birdIndex % Len(Roots)) + 1]
      targetMidi == rootMidi + 12
      sampleBaseMidi == 60
  IN snapToScale(targetMidi - sampleBaseMidi, rootMidi, DefaultScale)

SemitoneShift(t) == SemitoneShiftAt(BirdIndex(t))

\* let sliceTime = 0.3; try { sliceTime = await findBestSliceTime(...).catch(() => 0.3) } catch { sliceTime = 0.3 }
SliceTimeUsed(promise) == IF promise.rejected THEN DefaultSliceTime ELSE promise.value

\* findBestSliceTime settled: script.js:335-351, 232-244, 144 up to `await player.load()`
AfterSlice(s, r) == [s EXCEPT !.live[r] = @ \cup VoicesBeforeLoad]

ResumeSlice(r, ok) ==
  /\ pc[r] = "slice"
  /\ Becomes(AfterSlice(Cur, r))
  /\ pc' = [pc EXCEPT ![r] = "load"]
  /\ call' = [call EXCEPT ![r].detectOk = ok,
                          ![r].sliceTime = SliceTimeUsed(FindBestSliceTime(ok, TrackChannel(call[r].track), TrackSampleRate, MsWindow)),
                          ![r].semitone = SemitoneShift(call[r].track),
                          ![r].style = StyleIndexOf(BirdIndex(call[r].track))]
  /\ UNCHANGED <<timers, slice, snap, est, nav, arr, seq, fetcher, hook>>
  /\ lastStop' = "none"

\* a constructor of createAttentionLike throws (here new Tone.Player, script.js:144): the catch runs
ResumeSliceThrows(r) ==
  /\ pc[r] = "slice"
  /\ Becomes(CatchHandler([Cur EXCEPT !.live[r] = @ \cup (VoicesBeforeLoad \ {"player"})]))
  /\ pc' = [pc EXCEPT ![r] = "failed"]
  /\ UNCHANGED <<call, timers, slice, snap, est, nav, arr, seq, fetcher, hook>>
  /\ lastStop' = "none"

\* player.load() settled (a rejection is caught, script.js:145): script.js:146-149, 245-277
BuildRest(s, r) ==
  [s EXCEPT !.live[r] = @ \cup HookNodes \cup KitNodes \cup AllLoops,
            !.scheduled = @ \cup {<<r, l>> : l \in AllLoops}]

\* the completion without `activeTrack = { styleInstance, master }`
PublishFlagOnly(s, r) ==
  [s EXCEPT !.transportState = "started", !.isPlaying = TRUE]

\* script.js:353-357
Publish(s, r) ==
  [s EXCEPT !.activeTrack = r, !.transportState = "started", !.isPlaying = TRUE]

\* createSampleHook without the try/catch around player.load()
PlayerLoadUncaught(ok) == ~ok

\* try { await player.load(); } catch (e) { console.warn(...) }: whether the await
\* throws into createSampleHook; ok = the file was fetched and decoded
PlayerLoadThrows(ok) == FALSE

ResumeLoad(r, ok) ==
  /\ pc[r] = "load"
  /\ IF PlayerLoadThrows(ok)
     THEN /\ Becomes(CatchHandler(Cur))
          /\ pc' = [pc EXCEPT ![r] = "failed"]
     ELSE /\ Becomes(Publish(BuildRest(Cur, r), r))
          /\ pc' = [pc EXCEPT ![r] = "done"]
  /\ UNCHANGED <<call, timers, slice, snap, est, nav, arr, seq, fetcher, hook>>
  /\ lastStop' = (IF ok THEN "none" ELSE "loadFailed")

\* Tone.Transport.start() (or the UI update after it) throws: activeTrack is already assigned
PublishThrows(r) ==
  /\ pc[r] = "load"
  /\ Becomes(CatchHandler([BuildRest(Cur, r) EXCEPT !.activeTrack = r]))
  /\ pc' = [pc EXCEPT ![r] = "failed"]
  /\ UNCHANGED <<call, timers, slice, snap, est, nav, arr, seq, fetcher, hook>>
  /\ lastStop' = "none"

----------------------------------------------------------------------------
(* The handlers *)

\* selectBird without `if (isPlaying) stopPlay()`
selectBirdNoStop(id) == PlayCall([Cur EXCEPT !.nowPlaying = id], "select", activeTrack)

\* selectBird, script.js:913-944 (handleBirdRowSelect, script.js:885-910, does the same to this state)
selectBird(id) ==
  LET s1 == IF isPlaying THEN stopPlay(Cur) ELSE Cur
  IN PlayCall([s1 EXCEPT !.nowPlaying = id], "select", activeTrack)

RowClick(id) ==
  /\ id \in Tracks
  /\ selectBird(id)
  /\ UNCHANGED <<timers, slice, snap, est, nav, arr, seq, fetcher, hook>>
  /\ lastStop' = "none"

\* nextTrack, script.js:947-952
nextTrack ==
  /\ nowPlaying # 0
  /\ Len(filteredRecordings) # 0
  /\ selectBird(filteredRecordings[NextIndex(DisplayIndex(nowPlaying), Len(filteredRecordings)) + 1])
  /\ UNCHANGED <<timers, slice, snap, est, nav, arr, seq, fetcher, hook>>
  /\ lastStop' = "none"

\* previousTrack, script.js:953-958
previousTrack ==
  /\ nowPlaying # 0
  /\ Len(filteredRecordings) # 0
  /\ selectBird(filteredRecordings[PrevIndex(DisplayIndex(nowPlaying), Len(filteredRecordings)) + 1])
  /\ UNCHANGED <<timers, slice, snap, est, nav, arr, seq, fetcher, hook>>
  /\ lastStop' = "none"

\* playBtn click, script.js:1043-1047, while playing: stopPlay()
PlayBtnStops ==
  /\ nowPlaying # 0
  /\ isPlaying
  /\ Becomes(stopPlay(Cur))
  /\ lastStop' = "none"
  /\ UNCHANGED <<pc, call, timers, slice, snap, est, nav, arr, seq, fetcher, hook>>

\* playBtn click while not playing: playProduction()
PlayBtnPlays ==
  /\ nowPlaying # 0
  /\ ~isPlaying
  /\ PlayCall(Cur, "button", activeTrack)
  /\ UNCHANGED <<timers, slice, snap, est, nav, arr, seq, fetcher, hook>>
  /\ lastStop' = "none"

\* stopBtn click, script.js:1051
StopBtn ==
  /\ Becomes(stopPlay(Cur))
  /\ lastStop' = (IF isPlaying THEN "wasPlaying" ELSE "wasIdle")
  /\ UNCHANGED <<pc, call, timers, slice, snap, est, nav, arr, seq, fetcher, hook>>

\* the 2000 ms timer, script.js:1076-1082
TimerSelect ==
  /\ timers.select
  /\ selectBird(First)
  /\ timers' = [timers EXCEPT !.select = FALSE]
  /\ lastStop' = "none"
  /\ UNCHANGED <<slice, snap, est, nav, arr, seq, fetcher, hook>>

\* the 7000 ms timer, script.js:1084-1094; it fires after the 2000 ms one
TimerAutoplay ==
  /\ timers.autoplay
  /\ ~timers.select
  /\ PlayCall([Cur EXCEPT !.nowPlaying = IF nowPlaying = 0 THEN First ELSE nowPlaying], "autoplay", activeTrack)
  /\ timers' = [timers EXCEPT !.autoplay = FALSE]
  /\ lastStop' = "none"
  /\ UNCHANGED <<slice, snap, est, nav, arr, seq, fetcher, hook>>

----------------------------------------------------------------------------
(* Spec: the life cycle *)

IdleSlice == [state |-> "off"]
IdleSnap == [state |-> "off"]
IdleEst == [state |-> "off"]
IdleNav == [state |-> "off"]
IdleArr == [state |-> "off"]
IdleSeq == [state |-> "off"]
IdleFetch == [state |-> "off"]
IdleHook == [state |-> "off"]

PInit ==
  /\ nowPlaying = 0
  /\ isPlaying = FALSE
  /\ activeTrack = 0
  /\ transportState = "stopped"
  /\ scheduled = {}
  /\ live = [r \in Req |-> {}]
  /\ started = [r \in Req |-> {}]
  /\ pc = [r \in Req |-> "idle"]
  /\ call = [r \in Req |-> NoCall]
  /\ timers = [select |-> TRUE, autoplay |-> TRUE]
  /\ lastStop = "none"

Init ==
  /\ PInit
  /\ fetcher = IdleFetch
  /\ hook = IdleHook
  /\ slice = IdleSlice
  /\ snap = IdleSnap
  /\ est = IdleEst
  /\ nav = IdleNav
  /\ arr = IdleArr
  /\ seq = IdleSeq

Next ==
  \/ \E id \in Tracks : RowClick(id)
  \/ nextTrack
  \/ previousTrack
  \/ PlayBtnStops
  \/ PlayBtnPlays
  \/ StopBtn
  \/ TimerSelect
  \/ TimerAutoplay
  \/ \E r \in Req : ResumeStart(r)
  \/ \E r \in Req : ToneStartRejects(r)
  \/ \E r \in Req, ok \in BOOLEAN : ResumeSlice(r, ok)
  \/ \E r \in Req : ResumeSliceThrows(r)
  \/ \E r \in Req, ok \in BOOLEAN : ResumeLoad(r, ok)
  \/ \E r \in Req : PublishThrows(r)

Spec == Init /\ [][Next]_vars

----------------------------------------------------------------------------
(* Vocabulary of the claims *)

\* the graph of request r reaches the output: its limiter (toDestination) is allocated
Connected(r) == "limiter" \in live[r]
ConnectedGraphs == {r \in Req : Connected(r)}

\* the requests with a loop on the Transport timeline
LoopSets == {r \in Req : \E l \in AllLoops : <<r, l>> \in scheduled}

\* sum of squared amplitudes of the w samples from index start (0-based)
RECURSIVE WindowEnergy(_, _, _)
WindowEnergy(channel, start, w) ==
  IF w = 0 THEN 0
  ELSE At(channel, start) * At(channel, start) + WindowEnergy(channel, start + 1, w - 1)

\* returned time times sample rate
ReportedIndex(time, sampleRate) == (time.num * sampleRate) \div time.den

----------------------------------------------------------------------------
(* C1 *)

\* C1: in every reachable state at most one audio graph is built and not torn down
\* (connected to the output) and at most one set of loops is on the Transport.
C1_AtMostOneGraph ==
  /\ Cardinality(ConnectedGraphs) <= 1
  /\ Cardinality(LoopSets) <= 1

----------------------------------------------------------------------------
(* C2 *)

\* play(B) came from a track selection while graph a was playing
SelectedOver(r, a) == call[r].via = "select" /\ call[r].prevActive = a /\ a # 0

\* no play request overlapped request r
Alone(r) == call[r].sup = {} /\ \A q \in Req : r \notin call[q].sup

\* C2: when a track selection requests play of B while A's graph is playing, A's graph
\* is torn down by stopPlay before B's request creates anything (from the request on,
\* A's graph is off the output, its loops are disposed and off the Transport, and
\* activeTrack does not reference it); and the step that completes B's play leaves
\* activeTrack on B's graph with B's loops scheduled, and, when no other request
\* overlapped B's, B's loops are the only ones on the Transport.
C2_StopBeforeBuild ==
  [][\A r \in Req, a \in Req :
       SelectedOver(r, a)' =>
         /\ ~Connected(a)'
         /\ live'[a] \cap AllLoops = {}
         /\ a \notin LoopSets'
         /\ activeTrack' # a
         /\ (pc[r] = "idle" => live'[r] = {})
         /\ (pc[r] = "load" /\ pc'[r] = "done") =>
              /\ activeTrack' = r
              /\ isPlaying'
              /\ Connected(r)'
              /\ r \in LoopSets'
              /\ (Alone(r)' => LoopSets' = {r})
    ]_vars

C2_Witness ==
  \E r \in Req, a \in Req :
    /\ SelectedOver(r, a)
    /\ pc[r] = "done"
    /\ activeTrack = r
    /\ call[r].track # call[a].track
    /\ LoopSets = {r}

----------------------------------------------------------------------------
(* C3 *)

\* C3: if request r2 arrived while request r1 was suspended at an await, then the step
\* that finishes the second of them (both without error) leaves exactly one graph
\* connected, the one activeTrack references, built by r2, and nothing of r1 allocated
\* or scheduled.
C3_PlayRequestsSerialize ==
  [][\A r1 \in Req, r2 \in Req :
       ( /\ r1 \in call[r2].sup
         /\ pc'[r1] = "done" /\ pc'[r2] = "done"
         /\ (pc[r1] # "done" \/ pc[r2] # "done") ) =>
         /\ activeTrack' = r2
         /\ ConnectedGraphs' = {r2}
         /\ live'[r1] = {}
         /\ r1 \notin LoopSets'
    ]_vars

----------------------------------------------------------------------------
(* C4 *)

\* C4: the step in which stopPlay tears down the playing graph releases every node and
\* loop that its play created, master bus included.
C4_StopReleasesAll ==
  [][\A r \in Req :
       (isPlaying /\ activeTrack = r /\ pc[r] = "done" /\ lastStop' = "wasPlaying") =>
         (live'[r] = {} /\ started'[r] = {})
    ]_vars

----------------------------------------------------------------------------
(* C5 *)

StopObservables == <<isPlaying, activeTrack, live, started, scheduled, transportState>>

\* C5: a stop click while nothing is playing changes neither isPlaying, activeTrack, the
\* live nodes nor what is scheduled on the Transport.
C5_StopIdempotent ==
  [][(~isPlaying /\ lastStop' = "wasIdle") => UNCHANGED StopObservables]_vars

\* a stop click that found nothing playing, with a graph torn down before it and nodes
\* still allocated
C5_Witness ==
  /\ lastStop = "wasIdle"
  /\ \E r \in Req : pc[r] = "done" /\ live[r] # {}

----------------------------------------------------------------------------
(* C6 *)

\* C6: once playProduction has caught an exception, nothing that the failed attempt
\* created is still allocated.
C6_FailedBuildReleased ==
  \A r \in Req : pc[r] = "failed" => (live[r] = {} /\ started[r] = {})

----------------------------------------------------------------------------
(* C7 *)

\* C7: the step in which playProduction catches an exception ends with isPlaying false,
\* activeTrack null, the Transport stopped and nothing scheduled on it.
C7_ErrorPathIdle ==
  [][\A r \in Req :
       (pc[r] # "failed" /\ pc'[r] = "failed") =>
         /\ ~isPlaying'
         /\ activeTrack' = 0
         /\ transportState' = "stopped"
         /\ scheduled' = {}
    ]_vars

\* a play failed while another request's graph had been published
C7_Witness ==
  \E r \in Req, q \in Req :
    /\ pc[r] = "failed"
    /\ pc[q] = "done"
    /\ q \in call[r].sup \/ call[r].prevActive = q
    /\ ~isPlaying /\ activeTrack = 0 /\ transportState = "stopped" /\ scheduled = {}

----------------------------------------------------------------------------
(* C8 *)

\* C8: when fetch or decode failed during slice detection, the slice time the build
\* uses is the default 0.3 s.
C8_FallbackSliceTime ==
  \A r \in Req :
    (pc[r] \in {"load", "done"} /\ ~call[r].detectOk) => RatEq(call[r].sliceTime, DefaultSliceTime)

----------------------------------------------------------------------------
(* SpecSlice: findBestSliceTime on every bounded buffer *)

Amps == (0 - MaxAmp)..MaxAmp
Buffers == UNION {[1..n -> Amps] : n \in 0..MaxLen}
\* sample rates whose 120 ms window is 1, 2, ... samples long
SampleRates == {9 * w : w \in 1..(MaxLen + 1)}

SliceInit ==
  /\ PInit
  /\ fetcher = IdleFetch
  /\ hook = IdleHook
  /\ snap = IdleSnap
  /\ est = IdleEst
  /\ nav = IdleNav
  /\ arr = IdleArr
  /\ seq = IdleSeq
  /\ \E ch \in Buffers, sr \in SampleRates :
       slice = [state |-> "ready", channel |-> ch, sampleRate |-> sr, out |-> Rat(0, 1)]

\* fetch, arrayBuffer and decodeAudioData succeed
DetectSlice ==
  /\ slice.state = "ready"
  /\ slice' = [slice EXCEPT !.state = "decoded",
                            !.out = FindBestSliceTime(TRUE, slice.channel, slice.sampleRate, MsWindow).value]
  /\ UNCHANGED <<pvars, snap, est, nav, arr, seq, fetcher, hook>>

\* one of them fails
DetectSliceFails ==
  /\ slice.state = "ready"
  /\ slice' = [slice EXCEPT !.state = "failed",
                            !.out = FindBestSliceTime(FALSE, slice.channel, slice.sampleRate, MsWindow).value]
  /\ UNCHANGED <<pvars, snap, est, nav, arr, seq, fetcher, hook>>

SliceNext == DetectSlice \/ DetectSliceFails

SpecSlice == SliceInit /\ [][SliceNext]_vars

----------------------------------------------------------------------------
(* SpecSnap: snapToScale on every bounded input *)

Semitones == (0 - MaxSemi)..MaxSemi
RootSet == {Roots[i] : i \in 1..Len(Roots)}
Scales == {DefaultScale} \cup UNION {[1..n -> 0..11] : n \in 1..MaxScaleLen}

SnapInit ==
  /\ PInit
  /\ fetcher = IdleFetch
  /\ hook = IdleHook
  /\ slice = IdleSlice
  /\ est = IdleEst
  /\ nav = IdleNav
  /\ arr = IdleArr
  /\ seq = IdleSeq
  /\ \E s \in Semitones, r \in RootSet, sc \in Scales :
       snap = [state |-> "ready", semitone |-> s, rootMidi |-> r, scale |-> sc, out |-> 0]

SnapCall ==
  /\ snap.state = "ready"
  /\ snap' = [snap EXCEPT !.state = "done",
                          !.out = snapToScale(snap.semitone, snap.rootMidi, snap.scale)]
  /\ UNCHANGED <<pvars, slice, est, nav, arr, seq, fetcher, hook>>

SnapNext == SnapCall

SpecSnap == SnapInit /\ [][SnapNext]_vars

----------------------------------------------------------------------------
(* SpecBpm: estimateBPM on every bounded length label *)

RECURSIVE DecimalChars(_)
DecimalChars(n) ==
  IF n < 10 THEN <<Digits[n + 1]>> ELSE DecimalChars(n \div 10) \o <<Digits[(n % 10) + 1]>>

\* the catalog's "minutes:seconds" label, seconds on two digits
FormatLabel(m, sec) == DecimalChars(m) \o <<":">> \o <<Digits[(sec \div 10) + 1], Digits[(sec % 10) + 1]>>

BpmInit ==
  /\ PInit
  /\ fetcher = IdleFetch
  /\ hook = IdleHook
  /\ slice = IdleSlice
  /\ snap = IdleSnap
  /\ nav = IdleNav
  /\ arr = IdleArr
  /\ seq = IdleSeq
  /\ \/ \E m \in 0..MaxMinutes, sec \in 0..59 :
          est = [state |-> "ready", kind |-> "label", minutes |-> m, seconds |-> sec,
                 length |-> Str(FormatLabel(m, sec)), out |-> 0]
     \/ est = [state |-> "ready", kind |-> "null", minutes |-> 0, seconds |-> 0,
               length |-> NullLabel, out |-> 0]
     \/ est = [state |-> "ready", kind |-> "empty", minutes |-> 0, seconds |-> 0,
               length |-> Str(<<>>), out |-> 0]

EstimateCall ==
  /\ est.state = "ready"
  /\ est' = [est EXCEPT !.state = "done", !.out = estimateBPM(est.length)]
  /\ UNCHANGED <<pvars, slice, snap, nav, arr, seq, fetcher, hook>>

BpmNext == EstimateCall

SpecBpm == BpmInit /\ [][BpmNext]_vars

----------------------------------------------------------------------------
(* The arrangement variants, script.js:231 and 299-319 *)

\* a note name such as 'G#4'
N(name, octave) == [name |-> name, octave |-> octave]

DefaultMelodyNotes ==
  <<N("E", 5), N("G", 5), N("A", 5), N("G", 5), N("E", 5), N("D", 5), N("C", 5), N("D", 5)>>

DefaultChords ==
  << <<N("C", 4), N("E", 4), N("G", 4), N("B", 3)>>,
     <<N("A", 3), N("C", 4), N("E", 4), N("A", 4)>>,
     <<N("F", 3), N("A", 3), N("C", 4), N("F", 4)>>,
     <<N("G", 3), N("B", 3), N("D", 4), N("G", 4)>> >>

style_Attention == [melodyNotes |-> DefaultMelodyNotes, chords |-> DefaultChords]

style_LeftRight ==
  [melodyNotes |-> <<N("G", 5), N("A", 5), N("B", 5), N("A", 5), N("G", 5), N("E", 5), N("D", 5), N("C", 5)>>,
   chords |-> << <<N("F", 4), N("A", 4), N("C", 5)>>, <<N("D", 4), N("F", 4), N("A", 4)>>,
                 <<N("Bb", 3), N("D", 4), N("F", 4)>>, <<N("C", 4), N("E", 4), N("G", 4)>> >>]

style_LightSwitch ==
  [melodyNotes |-> <<N("C", 6), N("B", 5), N("A", 5), N("G", 5), N("E", 5), N("D", 5), N("C", 5), N("B", 4)>>,
   chords |-> << <<N("C", 4), N("E", 4), N("G", 4)>>, <<N("G", 3), N("B", 3), N("D", 4)>>,
                 <<N("F", 3), N("A", 3), N("C", 4)>>, <<N("E", 3), N("G", 3), N("B", 3)>> >>]

style_WeDontTalkAnymore ==
  [melodyNotes |-> <<N("A", 5), N("G", 5), N("E", 5), N("D", 5), N("C", 5), N("B", 4), N("A", 4), N("G", 4)>>,
   chords |-> << <<N("A", 3), N("C", 4), N("E", 4)>>, <<N("F", 3), N("A", 3), N("C", 4)>>,
                 <<N("D", 3), N("F", 3), N("A", 3)>>, <<N("E", 3), N("G", 3), N("B", 3)>> >>]

style_HowLong ==
  [melodyNotes |-> <<N("E", 5), N("F#", 5), N("G#", 5), N("B", 5), N("G#", 5), N("F#", 5), N("E", 5), N("B", 4)>>,
   chords |-> << <<N("E", 4), N("G#", 4), N("B", 4)>>, <<N("C#", 4), N("E", 4), N("G#", 4)>>,
                 <<N("A", 3), N("C#", 4), N("E", 4)>>, <<N("B", 3), N("D#", 4), N("F#", 4)>> >>]

\* the if / else-if chain of playProduction on styleIndex
StyleInstance(styleIndex) ==
  IF styleIndex = 0 THEN style_Attention
  ELSE IF styleIndex = 1 THEN style_LeftRight
  ELSE IF styleIndex = 2 THEN style_LightSwitch
  ELSE IF styleIndex = 3 THEN style_WeDontTalkAnymore
  ELSE style_HowLong

----------------------------------------------------------------------------
(* SpecSeq: the loops of createAttentionLike on the Transport, script.js:248-291 *)

bassPattern ==
  <<N("C", 2), N("C", 2), N("A", 1), N("A", 1), N("F", 1), N("F", 1), N("G", 1), N("G", 1)>>

Loops == {"drum", "bass", "chord", "melody", "hook"}

\* the interval each Tone.Loop is created with
LoopInterval == [drum |-> "16n", bass |-> "2n", chord |-> "2n", melody |-> "8n", hook |-> "8n"]

\* a note value in sixteenth notes
SixteenthsOf(notation) ==
  CASE notation = "16n" -> 1
    [] notation = "8n" -> 2
    [] notation = "4n" -> 4
    [] notation = "2n" -> 8
    [] notation = "1n" -> 16

\* Transport time, in sixteenths, of the next callback of a loop started at 0
Due(l) == seq.fired[l] * SixteenthsOf(LoopInterval[l])

\* the Transport runs the earliest pending events first; events of one instant are
\* taken in any order
CanFire(l) ==
  /\ seq.state = "running"
  /\ Due(l) < MaxSixteenths
  /\ \A o \in Loops : Due(l) <= Due(o)

NoNote == N("none", 0)

\* the kick on every quarter
DrumHitsFourOnFloor(pos) ==
  [kick |-> pos % 4 = 0,
   snare |-> pos = 4 \/ pos = 12,
   hat |-> pos % 2 = 0,
   hatOffsetMs |-> IF pos % 2 = 0 /\ pos % 4 = 2 THEN 10 ELSE 0]

\* what the drum callback triggers at pattern position pos
DrumHits(pos) ==
  [kick |-> pos = 0 \/ pos = 8,
   snare |-> pos = 4 \/ pos = 12,
   hat |-> pos % 2 = 0,
   hatOffsetMs |-> IF pos % 2 = 0 /\ pos % 4 = 2 THEN 10 ELSE 0]

\* the callback melodyLoop holds once createAttentionLike has returned: the
\* assignment to melodyLoop.callback replaces the one given to the constructor
MelodyCallbackAfterBuild == "padRamp"

\* the sequencer createAttentionLike returns: its four counters declared with
\* `let ... = 0`, its loops started at 0, no callback run yet.  stoppedAfter keeps
\* how many sixteenths the run before had played, -1 for the first run.
FreshSequencer(styleIndex, stoppedAfter) ==
  [state |-> "running",
   styleIndex |-> styleIndex,
   melodyNotes |-> StyleInstance(styleIndex).melodyNotes,
   chords |-> StyleInstance(styleIndex).chords,
   melodyCallback |-> MelodyCallbackAfterBuild,
   fired |-> [l \in Loops |-> 0],
   drumStep |-> 0, bassStep |-> 0, chordStep |-> 0, mStep |-> 0,
   lastDrum |-> [time |-> -1, hits |-> DrumHits(1)],
   lastBass |-> [time |-> -1, note |-> NoNote],
   lastChord |-> [time |-> -1, notes |-> <<NoNote>>],
   chordBefore |-> -1,
   lastLead |-> [time |-> -1, note |-> NoNote],
   lastPad |-> [time |-> -1, from |-> 10, to |-> 10],
   lastHook |-> -1,
   stoppedAfter |-> stoppedAfter]

\* a play that picks the stopped loops and counters up where they were
SeqResume(old, styleIndex) ==
  IF old.state = "off" THEN FreshSequencer(styleIndex, -1) ELSE [old EXCEPT !.state = "running"]

\* what playProduction leaves when it completes: Transport.stop() has put the
\* position back to 0 and createAttentionLike has built a new sequencer.  old is
\* the sequencer of the run before, whose counters live on only as garbage of a
\* closure nothing references.
SeqBuild(old, styleIndex) ==
  FreshSequencer(styleIndex, IF old.state = "off" THEN -1 ELSE old.fired.drum)

SeqInit ==
  /\ PInit
  /\ fetcher = IdleFetch
  /\ hook = IdleHook
  /\ slice = IdleSlice
  /\ snap = IdleSnap
  /\ est = IdleEst
  /\ nav = IdleNav
  /\ arr = IdleArr
  /\ \E styleIndex \in 0..4 : seq = SeqBuild(IdleSeq, styleIndex)

Fired(l) == [seq.fired EXCEPT ![l] = @ + 1]

DrumTick ==
  /\ CanFire("drum")
  /\ LET pos == seq.drumStep % 16
     IN seq' = [seq EXCEPT !.fired = Fired("drum"),
                           !.lastDrum = [time |-> Due("drum"), hits |-> DrumHits(pos)],
                           !.drumStep = @ + 1]
  /\ UNCHANGED <<pvars, slice, snap, est, nav, arr, fetcher, hook>>

BassTick ==
  /\ CanFire("bass")
  /\ seq' = [seq EXCEPT !.fired = Fired("bass"),
                        !.lastBass = [time |-> Due("bass"),
                                      note |-> bassPattern[(seq.bassStep % Len(bassPattern)) + 1]],
                        !.bassStep = @ + 1]
  /\ UNCHANGED <<pvars, slice, snap, est, nav, arr, fetcher, hook>>

ChordTick ==
  /\ CanFire("chord")
  /\ seq' = [seq EXCEPT !.fired = Fired("chord"),
                        !.lastChord = [time |-> Due("chord"),
                                       notes |-> seq.chords[(seq.chordStep % Len(seq.chords)) + 1]],
                        !.chordBefore = seq.lastChord.time,
                        !.chordStep = @ + 1]
  /\ UNCHANGED <<pvars, slice, snap, est, nav, arr, fetcher, hook>>

\* melodyLoop runs whatever its callback property holds at the tick
MelodyTick ==
  /\ CanFire("melody")
  /\ IF seq.melodyCallback = "lead"
     THEN seq' = [seq EXCEPT !.fired = Fired("melody"),
                             !.lastLead = [time |-> Due("melody"),
                                           note |-> seq.melodyNotes[(seq.mStep % Len(seq.melodyNotes)) + 1]],
                             !.mStep = @ + 1]
     ELSE seq' = [seq EXCEPT !.fired = Fired("melody"),
                             !.lastPad = [time |-> Due("melody"), from |-> 7, to |-> 10]]
  /\ UNCHANGED <<pvars, slice, snap, est, nav, arr, fetcher, hook>>

HookTick ==
  /\ CanFire("hook")
  /\ seq' = [seq EXCEPT !.fired = Fired("hook"), !.lastHook = Due("hook")]
  /\ UNCHANGED <<pvars, slice, snap, est, nav, arr, fetcher, hook>>

\* stopPlay: styleInstance.stop() stops and disposes the loops, no callback of
\* theirs runs again; isPlaying = false
SeqStop ==
  /\ seq.state = "running"
  /\ seq' = [seq EXCEPT !.state = "stopped"]
  /\ UNCHANGED <<pvars, slice, snap, est, nav, arr, fetcher, hook>>

\* a play after the stop (play button, row click, next, previous), run to completion
SeqPlay(styleIndex) ==
  /\ seq.state = "stopped"
  /\ seq' = SeqBuild(seq, styleIndex)
  /\ UNCHANGED <<pvars, slice, snap, est, nav, arr, fetcher, hook>>

SeqNext ==
  \/ DrumTick
  \/ BassTick
  \/ ChordTick
  \/ MelodyTick
  \/ HookTick
  \/ SeqStop
  \/ \E styleIndex \in 0..4 : SeqPlay(styleIndex)

SpecSeq == SeqInit /\ [][SeqNext]_vars

----------------------------------------------------------------------------
(* SpecArr: the variant playProduction builds, over catalogs of up to MaxCatalog
   tracks, script.js:322-351 and 913-944 *)

\* the recordings of a catalog of n tracks, in catalog order (ids 1..n)
Catalog(n) == [i \in 1..n |-> i]

ArrInit ==
  /\ PInit
  /\ fetcher = IdleFetch
  /\ hook = IdleHook
  /\ slice = IdleSlice
  /\ snap = IdleSnap
  /\ est = IdleEst
  /\ nav = IdleNav
  /\ seq = IdleSeq
  /\ \E n \in 1..MaxCatalog :
       arr = [state |-> "on", n |-> n, nowPlaying |-> 0, pending |-> 0,
              firstBuilt |-> [t \in 1..n |-> -1],
              built |-> [track |-> 0, styleIndex |-> 0, instance |-> style_Attention,
                         semitone |-> 0, rebuiltAfterOther |-> FALSE]]

\* selectBird(id) from a row, nextTrack, previousTrack or the 2000 ms timer:
\* nowPlaying = bird, then playProduction() is entered and waits
ArrSelect(id) ==
  /\ arr.state = "on"
  /\ id \in 1..arr.n
  /\ arr.pending < MaxReq
  /\ arr' = [arr EXCEPT !.nowPlaying = id, !.pending = @ + 1]
  /\ UNCHANGED <<pvars, slice, snap, est, nav, seq, fetcher, hook>>

\* the play button or the 7000 ms timer: playProduction() on the current track
ArrReplay ==
  /\ arr.state = "on"
  /\ arr.nowPlaying # 0
  /\ arr.pending < MaxReq
  /\ arr' = [arr EXCEPT !.pending = @ + 1]
  /\ UNCHANGED <<pvars, slice, snap, est, nav, seq, fetcher, hook>>

\* a waiting playProduction resumes: birdIndex and styleIndex from nowPlaying as it
\* is now, then the style function of that index
ArrBuild ==
  /\ arr.state = "on"
  /\ arr.pending > 0
  /\ LET t == arr.nowPlaying
         styleIndex == StyleIndexOf(BirdIndexIn(Catalog(arr.n), t))
     IN arr' = [arr EXCEPT !.pending = @ - 1,
                           !.firstBuilt[t] = IF @ = -1 THEN styleIndex ELSE @,
                           !.built = [track |-> t, styleIndex |-> styleIndex,
                                      instance |-> StyleInstance(styleIndex),
                                      semitone |-> SemitoneShiftAt(BirdIndexIn(Catalog(arr.n), t)),
                                      rebuiltAfterOther |->
                                        arr.firstBuilt[t] # -1 /\ arr.built.track # t]]
  /\ UNCHANGED <<pvars, slice, snap, est, nav, seq, fetcher, hook>>

ArrNext ==
  \/ \E id \in 1..MaxCatalog : ArrSelect(id)
  \/ ArrReplay
  \/ ArrBuild

SpecArr == ArrInit /\ [][ArrNext]_vars

----------------------------------------------------------------------------
(* SpecNav: selectBird, nextTrack and previousTrack over catalogs of up to
   MaxCatalog tracks, script.js:913-958 *)

\* display orders the sort by species can give a catalog of n tracks: the catalog
\* order, its reverse, and the catalog order rotated by one
DisplayOrders(n) ==
  {Catalog(n), [i \in 1..n |-> n + 1 - i], [i \in 1..n |-> (i % n) + 1]}

NavInit ==
  /\ PInit
  /\ fetcher = IdleFetch
  /\ hook = IdleHook
  /\ slice = IdleSlice
  /\ snap = IdleSnap
  /\ est = IdleEst
  /\ arr = IdleArr
  /\ seq = IdleSeq
  /\ \E n \in 0..MaxCatalog : \E order \in DisplayOrders(n) :
       nav = [state |-> "on", recordings |-> Catalog(n), filteredRecordings |-> order,
              nowPlaying |-> 0, trail |-> <<>>]

\* the last two handlers run: which, the selection it found, the track it played
Trail(op, played) ==
  LET e == [op |-> op, from |-> nav.nowPlaying, played |-> played]
  IN IF Len(nav.trail) = 0 THEN <<e>> ELSE <<nav.trail[Len(nav.trail)], e>>

\* selectBird(id): recordings.find, nowPlaying = bird, playProduction()
NavSelectBird(op, id) ==
  IF FindIndex(nav.recordings, id) < 0
  THEN nav' = [nav EXCEPT !.trail = Trail(op, 0)]
  ELSE nav' = [nav EXCEPT !.nowPlaying = id, !.trail = Trail(op, id)]

\* a row click or the 2000 ms timer
NavSelect(id) ==
  /\ nav.state = "on"
  /\ id \in 1..Len(nav.recordings)
  /\ NavSelectBird("select", id)
  /\ UNCHANGED <<pvars, slice, snap, est, arr, seq, fetcher, hook>>

NavNextTrack ==
  /\ nav.state = "on"
  /\ IF nav.nowPlaying = 0 \/ Len(nav.filteredRecordings) = 0
     THEN nav' = [nav EXCEPT !.trail = Trail("next", 0)]
     ELSE LET currentIndex == FindIndex(nav.filteredRecordings, nav.nowPlaying)
              nextIndex == NextIndex(currentIndex, Len(nav.filteredRecordings))
          IN NavSelectBird("next", nav.filteredRecordings[nextIndex + 1])
  /\ UNCHANGED <<pvars, slice, snap, est, arr, seq, fetcher, hook>>

NavPreviousTrack ==
  /\ nav.state = "on"
  /\ IF nav.nowPlaying = 0 \/ Len(nav.filteredRecordings) = 0
     THEN nav' = [nav EXCEPT !.trail = Trail("previous", 0)]
     ELSE LET currentIndex == FindIndex(nav.filteredRecordings, nav.nowPlaying)
              prevIndex == PrevIndex(currentIndex, Len(nav.filteredRecordings))
          IN NavSelectBird("previous", nav.filteredRecordings[prevIndex + 1])
  /\ UNCHANGED <<pvars, slice, snap, est, arr, seq, fetcher, hook>>

NavNext ==
  \/ \E id \in 1..MaxCatalog : NavSelect(id)
  \/ NavNextTrack
  \/ NavPreviousTrack

SpecNav == NavInit /\ [][NavNext]_vars

----------------------------------------------------------------------------
(* SpecFetch: fetchWithTimeout, script.js:57-74, cut at `await fetch(...)` and at
   the await of the backoff timer *)

\* how one attempt ends: a response with res.ok, a response without, a network
\* error, or the abort the timeout timer triggers
FetchOutcomes == {"ok", "status", "network", "abort"}

\* the catch giving up one attempt early
GivesUpEarly(attempt, retries) == attempt >= retries

\* if (attempt > retries) throw err
GivesUp(attempt, retries) == attempt > retries

\* the call has run `attempt++` and waits for its first fetch
FetchInit ==
  /\ PInit
  /\ slice = IdleSlice
  /\ snap = IdleSnap
  /\ est = IdleEst
  /\ nav = IdleNav
  /\ arr = IdleArr
  /\ seq = IdleSeq
  /\ hook = IdleHook
  /\ \E retries \in 0..MaxRetries :
       fetcher = [state |-> "fetching", retries |-> retries, attempt |-> 1, log |-> <<>>,
                  result |-> [kind |-> "none", attempt |-> 0]]

\* the fetch of this attempt settles: script.js:64-71
FetchSettles(outcome) ==
  /\ fetcher.state = "fetching"
  /\ LET log1 == Append(fetcher.log, outcome)
         this == [kind |-> outcome, attempt |-> fetcher.attempt]
     IN IF outcome = "ok"
        THEN fetcher' = [fetcher EXCEPT !.state = "returned", !.log = log1, !.result = this]
        ELSE IF GivesUp(fetcher.attempt, fetcher.retries)
        THEN fetcher' = [fetcher EXCEPT !.state = "thrown", !.log = log1, !.result = this]
        ELSE fetcher' = [fetcher EXCEPT !.state = "backoff", !.log = log1]
  /\ UNCHANGED <<pvars, slice, snap, est, nav, arr, seq, hook>>

\* the backoff timer fires: back to the top of the loop, attempt++, the next fetch
BackoffElapses ==
  /\ fetcher.state = "backoff"
  /\ fetcher' = [fetcher EXCEPT !.state = "fetching", !.attempt = @ + 1]
  /\ UNCHANGED <<pvars, slice, snap, est, nav, arr, seq, hook>>

FetchNext ==
  \/ \E outcome \in FetchOutcomes : FetchSettles(outcome)
  \/ BackoffElapses

SpecFetch == FetchInit /\ [][FetchNext]_vars

----------------------------------------------------------------------------
(* SpecHook: the object createSampleHook returns, script.js:137-173, under any
   sequence of startHook, stopHook and dispose, on a Transport that also runs
   the four sequencer loops of SpecSeq *)

\* a new Tone.Loop: an object distinct from the loops on the timeline
NewLoop(h) ==
  CHOOSE i \in 1..(Cardinality(h.timeline) + 1) :
    i \notin h.timeline /\ \A j \in 1..(i - 1) : j \in h.timeline

\* startHook without `if (hookLoop) return`
startHookUnguarded(h) ==
  [h EXCEPT !.hookLoop = NewLoop(h), !.timeline = @ \cup {NewLoop(h)}, !.last = "start"]

\* startHook: if (hookLoop) return; hookLoop = new Tone.Loop(cb, loopRate).start(0)
startHook(h) ==
  IF h.hookLoop # 0
  THEN [h EXCEPT !.startsIgnored = TRUE, !.last = "start"]
  ELSE [h EXCEPT !.hookLoop = NewLoop(h), !.timeline = @ \cup {NewLoop(h)}, !.last = "start"]

\* stopHook: if (hookLoop) { hookLoop.stop(); hookLoop.dispose(); hookLoop = null }
stopHook(h) ==
  IF h.hookLoop # 0
  THEN [h EXCEPT !.timeline = @ \ {h.hookLoop}, !.hookLoop = 0, !.last = "stop"]
  ELSE [h EXCEPT !.last = "stop"]

\* dispose: stopHook(); player.dispose(); ampEnv.dispose(); gain.dispose()
hookDispose(h) == [stopHook(h) EXCEPT !.disposed = TRUE, !.last = "dispose"]

\* the Transport reaches an eighth: every hook loop on the timeline runs its
\* callback once (player.stop, player.start at the slice, ampEnv trigger, all
\* inside try/catch); retriggers counts the callbacks of this instant
hookCallbacks(h, time) ==
  [h EXCEPT !.retriggers = Cardinality(h.timeline),
            !.retriggeredAt = IF h.timeline # {} THEN time ELSE @,
            !.last = "tick"]

\* createSampleHook has returned (hookLoop = null) beside a newly built sequencer
HookInit ==
  /\ PInit
  /\ slice = IdleSlice
  /\ snap = IdleSnap
  /\ est = IdleEst
  /\ nav = IdleNav
  /\ arr = IdleArr
  /\ fetcher = IdleFetch
  /\ seq = SeqBuild(IdleSeq, 0)
  /\ hook = [state |-> "on", hookLoop |-> 0, timeline |-> {}, disposed |-> FALSE,
             startsIgnored |-> FALSE, retriggers |-> 0, retriggeredAt |-> -1, last |-> "none"]

StartHook ==
  /\ hook.state = "on"
  /\ hook' = startHook(hook)
  /\ UNCHANGED <<pvars, slice, snap, est, nav, arr, seq, fetcher>>

StopHook ==
  /\ hook.state = "on"
  /\ hook' = stopHook(hook)
  /\ UNCHANGED <<pvars, slice, snap, est, nav, arr, seq, fetcher>>

DisposeHook ==
  /\ hook.state = "on"
  /\ hook' = hookDispose(hook)
  /\ UNCHANGED <<pvars, slice, snap, est, nav, arr, seq, fetcher>>

\* the next eighth of the Transport: seq.fired.hook counts the eighths passed
HookEighth ==
  /\ hook.state = "on"
  /\ CanFire("hook")
  /\ hook' = hookCallbacks(hook, Due("hook"))
  /\ seq' = [seq EXCEPT !.fired = Fired("hook")]
  /\ UNCHANGED <<pvars, slice, snap, est, nav, arr, fetcher>>

HookNext ==
  \/ StartHook
  \/ StopHook
  \/ DisposeHook
  \/ HookEighth
  \/ DrumTick
  \/ BassTick
  \/ ChordTick
  \/ MelodyTick

SpecHook == HookInit /\ [][HookNext]_vars

----------------------------------------------------------------------------
(* C9 *)

\* C9: for a window of 1 <= W <= length samples, the reported start index begins a
\* W-sample window whose energy is at least that of every other W-sample window.
C9_MaxEnergyWindow ==
  slice.state = "decoded" =>
    LET ch == slice.channel
        w == WindowSamples(MsWindow, slice.sampleRate)
        i == ReportedIndex(slice.out, slice.sampleRate)
    IN (1 <= w /\ w <= Len(ch)) =>
         /\ i \in 0..(Len(ch) - w)
         /\ \A j \in 0..(Len(ch) - w) : WindowEnergy(ch, i, w) >= WindowEnergy(ch, j, w)

----------------------------------------------------------------------------
(* C10 *)

\* the scale tones of the input's octave band (b = 0) and of the two adjacent ones
BandTones(rootMidi, scale, midi) ==
  LET base == rootMidi + ((midi - rootMidi) \div 12) * 12
  IN {base + 12 * b + scale[k] : b \in {-1, 0, 1}, k \in 1..Len(scale)}

\* C10: the result is a scale tone of the same or an adjacent octave band at the least
\* distance from the input pitch; among the tones of the input's own band at that
\* distance it is the first in interval-list order.
C10_NearestOverAdjacentBands ==
  snap.state = "done" =>
    LET midi == 60 + snap.semitone
        base == snap.rootMidi + ((midi - snap.rootMidi) \div 12) * 12
        got == snap.out + 60
        tones == BandTones(snap.rootMidi, snap.scale, midi)
    IN /\ got \in tones
       /\ \A n \in tones : Abs(midi - got) <= Abs(midi - n)
       /\ \A k \in 1..Len(snap.scale) :
            (base + snap.scale[k] # got /\ Abs(midi - (base + snap.scale[k])) = Abs(midi - got)) =>
              \E k0 \in 1..(k - 1) : base + snap.scale[k0] = got

----------------------------------------------------------------------------
(* C11 *)

\* semitone offset x from middle C is a tone of the scale built on rootMidi
IsScaleTone(x, rootMidi, scale) ==
  \E k \in 1..Len(scale) : (x + 60 - rootMidi) % 12 = scale[k]

\* C11: with the default scale [0,2,3,5,7,8,10] the result is always a scale tone of
\* the root; an input that is a scale tone is returned unchanged; an input that is
\* not a scale tone is never returned as is.
C11_DefaultScaleTone ==
  (snap.state = "done" /\ snap.scale = DefaultScale) =>
    /\ IsScaleTone(snap.out, snap.rootMidi, DefaultScale)
    /\ IsScaleTone(snap.semitone, snap.rootMidi, DefaultScale) => snap.out = snap.semitone
    /\ ~IsScaleTone(snap.semitone, snap.rootMidi, DefaultScale) => snap.out # snap.semitone

\* a pitch below the root that is not a scale tone was snapped onto one
C11_Witness ==
  /\ snap.state = "done"
  /\ snap.scale = DefaultScale
  /\ 60 + snap.semitone < snap.rootMidi
  /\ ~IsScaleTone(snap.semitone, snap.rootMidi, DefaultScale)
  /\ IsScaleTone(snap.out, snap.rootMidi, DefaultScale)

----------------------------------------------------------------------------
(* C12 *)

\* the tempo of a recording of t seconds
TempoOfSeconds(t) ==
  CASE t < 30 -> 95
    [] 30 <= t /\ t < 60 -> 85
    [] 60 <= t /\ t < 120 -> 75
    [] t >= 120 -> 65

\* C12: a "minutes:seconds" label of t = 60 * minutes + seconds maps to 95 for t < 30,
\* 85 for 30 <= t < 60, 75 for 60 <= t < 120 and 65 for t >= 120; a null or empty
\* label maps to 75; the result is one of 95, 85, 75, 65 and no longer label gets a
\* higher tempo.
C12_TempoBuckets ==
  est.state = "done" =>
    /\ est.out \in {95, 85, 75, 65}
    /\ est.kind \in {"null", "empty"} => est.out = 75
    /\ est.kind = "label" =>
         LET t == 60 * est.minutes + est.seconds
         IN /\ est.out = TempoOfSeconds(t)
            /\ \A m \in 0..MaxMinutes, sec \in 0..59 :
                 60 * m + sec >= t => estimateBPM(Str(FormatLabel(m, sec))) <= est.out

\* a label with both fields non-zero, on a threshold
C12_Witness ==
  /\ est.state = "done"
  /\ est.kind = "label"
  /\ est.minutes = 1 /\ est.seconds = 0
  /\ est.length.chars = <<"1", ":", "0", "0">>
  /\ est.out = 75

----------------------------------------------------------------------------
(* C13 *)

Counters == <<seq.drumStep, seq.bassStep, seq.chordStep, seq.mStep>>

\* C13: after N callbacks of its own loop each step counter, taken modulo its pattern
\* length (16, 8, the number of chords, the number of melody notes), equals N modulo
\* that length; a step that advances one counter leaves the other three as they were.
C13_CountersCyclicIndependent ==
  [][/\ seq'.drumStep % 16 = seq'.fired.drum % 16
     /\ seq'.bassStep % Len(bassPattern) = seq'.fired.bass % Len(bassPattern)
     /\ seq'.chordStep % Len(seq'.chords) = seq'.fired.chord % Len(seq'.chords)
     /\ seq'.mStep % Len(seq'.melodyNotes) = seq'.fired.melody % Len(seq'.melodyNotes)
     /\ Cardinality({i \in 1..4 : Counters[i] # Counters'[i]}) <= 1
    ]_vars

----------------------------------------------------------------------------
(* C14 *)

\* the five built-in variants, in order
Variants == <<style_Attention, style_LeftRight, style_LightSwitch, style_WeDontTalkAnymore, style_HowLong>>

\* C14: the variant built for a track is the one at (catalog position mod 5) in the
\* five built-in variants, and it is the variant the first build of that track got,
\* whatever was selected, replayed and built in between.
C14_VariantByPosition ==
  (arr.state = "on" /\ arr.built.track # 0) =>
    LET position == arr.built.track - 1
    IN /\ arr.built.styleIndex = position % 5
       /\ arr.built.instance = Variants[(position % 5) + 1]
       /\ arr.built.styleIndex = arr.firstBuilt[arr.built.track]

\* the sixth track of a catalog was built, another track was built after it, and
\* the sixth was built again
C14_Witness ==
  /\ arr.state = "on"
  /\ arr.built.track = 6
  /\ arr.built.rebuiltAfterOther
  /\ arr.built.instance = style_Attention

----------------------------------------------------------------------------
(* C15 *)

\* C15: when slice detection failed and the player's load fails too, the play
\* request still completes: isPlaying is true, activeTrack is its graph, its drum,
\* bass, chord and melody loops are scheduled and the Transport is started; it does
\* not go to the error path.
C15_SampleFailuresStillPlay ==
  [][\A r \in Req :
       (pc[r] = "load" /\ pc'[r] # "load" /\ ~call[r].detectOk /\ lastStop' = "loadFailed") =>
         /\ pc'[r] = "done"
         /\ isPlaying'
         /\ activeTrack' = r
         /\ transportState' = "started"
         /\ \A l \in SeqLoops : <<r, l>> \in scheduled'
    ]_vars

\* a request whose detection had failed has just had its load fail, and is the
\* playing one
C15_Witness ==
  \E r \in Req :
    /\ pc[r] = "done"
    /\ ~call[r].detectOk /\ lastStop = "loadFailed"
    /\ isPlaying /\ activeTrack = r /\ transportState = "started"
    /\ \A l \in SeqLoops : <<r, l>> \in scheduled

----------------------------------------------------------------------------
(* C16 *)

\* the 0-based place of a track in the displayed list
PlaceOf(id) ==
  CHOOSE i \in 0..(Len(nav.filteredRecordings) - 1) : nav.filteredRecordings[i + 1] = id

\* what one next() or previous() did, given the selection it found and the one it left
NavStepOk(e, after) ==
  LET n == Len(nav.filteredRecordings)
  IN IF e.from = 0 \/ n = 0
     THEN after = e.from /\ e.played = 0
     ELSE /\ e.played = after
          /\ e.op = "next" => PlaceOf(after) = (PlaceOf(e.from) + 1) % n
          /\ e.op = "previous" => PlaceOf(after) = (PlaceOf(e.from) - 1) % n

\* C16: from place i of a displayed list of n tracks next() selects and plays the
\* track at (i + 1) mod n and previous() the track at (i - 1) mod n; next() then
\* previous(), or previous() then next(), ends on the original track; with no track
\* selected or an empty list both do nothing.
C16_CyclicNavigation ==
  (nav.state = "on" /\ Len(nav.trail) > 0) =>
    LET last == nav.trail[Len(nav.trail)]
    IN /\ last.op \in {"next", "previous"} => NavStepOk(last, nav.nowPlaying)
       /\ (Len(nav.trail) = 2 /\ {nav.trail[1].op, nav.trail[2].op} = {"next", "previous"}) =>
            nav.nowPlaying = nav.trail[1].from

\* previous() from the first place wrapped to the last, and next() came back
C16_Witness ==
  /\ nav.state = "on"
  /\ Len(nav.filteredRecordings) >= 3
  /\ nav.filteredRecordings # nav.recordings
  /\ Len(nav.trail) = 2
  /\ nav.trail[1].op = "previous" /\ nav.trail[1].from = nav.filteredRecordings[1]
  /\ nav.trail[2].op = "next" /\ nav.trail[2].from = nav.filteredRecordings[Len(nav.filteredRecordings)]
  /\ nav.nowPlaying = nav.filteredRecordings[1]
  /\ nav.trail[2].played = nav.nowPlaying

----------------------------------------------------------------------------
(* C17 *)

\* C17: on the k-th eighth-note tick of the melody loop (k from 0) the lead is
\* triggered with melodyNotes[k mod length], the melody counter advances by one and
\* the pad gain is set to 0.7 and ramped to 1.0.
C17_MelodyTickPlaysLead ==
  (seq.state # "off" /\ seq.fired.melody >= 1) =>
    LET k == seq.fired.melody - 1
        at == k * SixteenthsOf("8n")
    IN /\ seq.lastLead = [time |-> at, note |-> seq.melodyNotes[(k % Len(seq.melodyNotes)) + 1]]
       /\ seq.mStep = k + 1
       /\ seq.lastPad = [time |-> at, from |-> 7, to |-> 10]

----------------------------------------------------------------------------
(* C18 *)

\* C18: in the default arrangement, at every half-note tick the bass note has the
\* pitch class of the first (root) note of the chord the chord loop sounds on that
\* tick.
C18_BassMatchesChordRoot ==
  (seq.state # "off" /\ seq.styleIndex = 0 /\ seq.lastBass.time >= 0
     /\ seq.lastBass.time = seq.lastChord.time) =>
    seq.lastBass.note.name = seq.lastChord.notes[1].name

----------------------------------------------------------------------------
(* C19 *)

\* the callbacks of loop l at Transport times a <= t < b
TicksBetween(l, a, b) ==
  Cardinality({t \in a..(b - 1) : t % SixteenthsOf(LoopInterval[l]) = 0})

\* C19: between two consecutive advances of the chord counter there are exactly 16
\* sixteenth-note drum ticks and exactly 2 half-note bass ticks.
C19_ChordPerWholeNote ==
  (seq.state # "off" /\ seq.chordBefore >= 0) =>
    /\ TicksBetween("drum", seq.chordBefore, seq.lastChord.time) = 16
    /\ TicksBetween("bass", seq.chordBefore, seq.lastChord.time) = 2

----------------------------------------------------------------------------
(* C20 *)

\* C20: on the n-th sixteenth-note tick (n from 0), with pos = n mod 16, the kick is
\* triggered exactly for pos in {0, 8}, the snare exactly for pos in {4, 12}, the
\* hi-hat exactly for even pos, and the hi-hat is delayed exactly for pos in
\* {2, 6, 10, 14}.
C20_DrumPattern ==
  (seq.state # "off" /\ seq.fired.drum >= 1) =>
    LET n == seq.fired.drum - 1
        pos == n % 16
        hits == seq.lastDrum.hits
    IN /\ seq.lastDrum.time = n
       /\ hits.kick <=> pos \in {0, 8}
       /\ hits.snare <=> pos \in {4, 12}
       /\ hits.hat <=> pos % 2 = 0
       /\ hits.hatOffsetMs > 0 <=> pos \in {2, 6, 10, 14}

\* the delayed hi-hat of position 14 in the second bar
C20_Witness ==
  /\ seq.state # "off"
  /\ seq.fired.drum = 31
  /\ seq.drumStep = 31
  /\ seq.lastDrum.hits = [kick |-> FALSE, snare |-> FALSE, hat |-> TRUE, hatOffsetMs |-> 10]

----------------------------------------------------------------------------
(* C21 *)

\* a loop callback of request r's graph can run: one of its loops is an event of the
\* Transport timeline and the Transport runs
CallbackCanFire(r) == transportState = "started" /\ \E l \in AllLoops : <<r, l>> \in scheduled

\* C21: once a play request has scheduled its loops, no loop callback of a graph
\* built by an earlier play request fires any more.
C21_NoStaleCallbacks ==
  \A q \in Req, r \in Req :
    (r < q /\ pc[q] = "done" /\ (\E l \in AllLoops : <<q, l>> \in scheduled)) => ~CallbackCanFire(r)

----------------------------------------------------------------------------
(* C22 *)

\* C22: when stop is clicked while a play request is suspended at an await and no
\* play is requested afterwards, then once the pending work has finished isPlaying
\* is false, activeTrack is null, the Transport is stopped and no loop is scheduled.
\* The stop click is the step before the one that finishes the last pending request.
C22_StopCancelsPendingPlay ==
  [][(/\ lastStop \in {"wasIdle", "wasPlaying"}
      /\ InFlight # {}
      /\ \A r \in Req : pc[r] = "idle" => pc'[r] = "idle"
      /\ \A r \in Req : pc'[r] \notin {"start", "slice", "load"}) =>
       /\ ~isPlaying'
       /\ activeTrack' = 0
       /\ transportState' = "stopped"
       /\ scheduled' = {}
    ]_vars

----------------------------------------------------------------------------
(* C23 *)

\* C23: playing ends only by the stop, never by a loop callback or a timeout, and a
\* play that follows a stop starts a sequencer whose drum, bass, chord and melody
\* counters are 0 and whose Transport position is 0: no callback has run and nothing
\* of the run before is carried over.
C23_StopThenFreshStart ==
  [][/\ (seq.state = "running" /\ seq'.state # "running") =>
          /\ seq'.state = "stopped"
          /\ seq'.fired = seq.fired
          /\ Counters' = Counters
     /\ (seq.state = "stopped" /\ seq'.state = "running") =>
          /\ Counters' = <<0, 0, 0, 0>>
          /\ \A l \in Loops : seq'.fired[l] = 0
          /\ seq'.lastDrum.time = -1 /\ seq'.lastBass.time = -1 /\ seq'.lastChord.time = -1
          /\ seq'.lastLead.time = -1 /\ seq'.lastPad.time = -1 /\ seq'.lastHook = -1
    ]_vars

\* a second run, begun after a first that had played a bar or more, at its start
C23_Witness ==
  /\ seq.state = "running"
  /\ seq.stoppedAfter >= 16
  /\ Counters = <<0, 0, 0, 0>>
  /\ \A l \in Loops : seq.fired[l] = 0

----------------------------------------------------------------------------
(* C24 *)

\* C24: whenever control is back in the event loop, isPlaying is true exactly when
\* activeTrack is non-null.
C24_PlayingIffActiveTrack == isPlaying <=> activeTrack # 0

\* a play request failed, a later one completed and is the playing one
C24_Witness ==
  \E r \in Req, q \in Req :
    /\ r < q
    /\ pc[r] = "failed"
    /\ pc[q] = "done"
    /\ isPlaying
    /\ activeTrack = q

----------------------------------------------------------------------------
(* C25 *)

\* C25: whenever control is back in the event loop, isPlaying = true implies that
\* the Transport is started, also while a further play request is in progress.
C25_PlayingImpliesTransportStarted == isPlaying => transportState = "started"

----------------------------------------------------------------------------
(* C26 *)

\* C26: for the track at catalog position i the semitone offset handed to the
\* sample hook is snapToScale(roots[i mod 5] + 12 - 60, roots[i mod 5]) with
\* roots = [60, 62, 64, 65, 67], and it is a tone of the scale [0,2,3,5,7,8,10] on
\* that root.
C26_HookSemitoneSnapped ==
  (arr.state = "on" /\ arr.built.track # 0) =>
    LET i == arr.built.track - 1
        root == <<60, 62, 64, 65, 67>>[(i % 5) + 1]
    IN /\ arr.built.semitone = snapToScale(root + 12 - 60, root, <<0, 2, 3, 5, 7, 8, 10>>)
       /\ IsScaleTone(arr.built.semitone, root, <<0, 2, 3, 5, 7, 8, 10>>)

\* the fifth track: root 67, offset 19
C26_Witness ==
  /\ arr.state = "on"
  /\ arr.built.track = 5
  /\ arr.built.semitone = 19

----------------------------------------------------------------------------
(* C27 *)

\* C27: a buffer shorter than one window gives 0; otherwise the reported start
\* index i satisfies 0 <= i and i + windowSamples <= buffer length.
C27_SliceInsideBuffer ==
  slice.state = "decoded" =>
    LET w == WindowSamples(MsWindow, slice.sampleRate)
        len == Len(slice.channel)
        i == ReportedIndex(slice.out, slice.sampleRate)
    IN /\ len < w => RatEq(slice.out, Rat(0, 1))
       /\ len >= w => (0 <= slice.out.num /\ 0 <= i /\ i + w <= len)

\* a window of two samples found past the start of a four-sample buffer
C27_Witness ==
  /\ slice.state = "decoded"
  /\ WindowSamples(MsWindow, slice.sampleRate) = 2
  /\ Len(slice.channel) = 4
  /\ ReportedIndex(slice.out, slice.sampleRate) = 1

----------------------------------------------------------------------------
(* C28 *)

\* C28: fetchWithTimeout makes at most retries + 1 attempts; it returns the response
\* of the first attempt that ends with an OK status and attempts nothing after it;
\* when all retries + 1 attempts fail it throws the error of the last one, and it
\* does not throw before.
C28_FetchAttemptsBounded ==
  fetcher.state # "off" =>
    LET n == Len(fetcher.log)
    IN /\ fetcher.attempt <= fetcher.retries + 1
       /\ \A k \in 1..(n - 1) : fetcher.log[k] # "ok"
       /\ fetcher.state = "returned" =>
            /\ fetcher.attempt = n
            /\ fetcher.log[n] = "ok"
            /\ fetcher.result = [kind |-> "ok", attempt |-> n]
       /\ fetcher.state = "thrown" =>
            /\ n = fetcher.retries + 1
            /\ fetcher.attempt = n
            /\ fetcher.log[n] # "ok"
            /\ fetcher.result = [kind |-> fetcher.log[n], attempt |-> n]
       /\ (n >= 1 /\ fetcher.log[n] # "ok" /\ n = fetcher.retries + 1) => fetcher.state = "thrown"

\* two failed attempts of different kinds, then a response on the last attempt allowed
C28_Witness ==
  /\ fetcher.state = "returned"
  /\ fetcher.retries = 2
  /\ fetcher.log = <<"abort", "status", "ok">>

----------------------------------------------------------------------------
(* C29 *)

\* C29: a sample hook has at most one retrigger loop at any time: startHook while
\* a loop exists creates none, stopHook and dispose leave none; while the loop
\* exists it runs its callback once on every eighth-note tick, and no step of the
\* hook changes the drum, bass, chord or melody counter.
C29_OneHookLoop ==
  [][hook'.state = "on" =>
       /\ Cardinality(hook'.timeline) <= 1
       /\ hook'.timeline = (IF hook'.hookLoop = 0 THEN {} ELSE {hook'.hookLoop})
       /\ (hook'.last = "start" /\ hook.timeline # {}) => hook'.timeline = hook.timeline
       /\ hook'.last = "start" => Cardinality(hook'.timeline) = 1
       /\ hook'.last \in {"stop", "dispose"} => hook'.timeline = {}
       /\ seq'.fired.hook # seq.fired.hook =>
            /\ seq'.fired.hook = seq.fired.hook + 1
            /\ hook'.retriggers = (IF hook.timeline # {} THEN 1 ELSE 0)
            /\ hook.timeline # {} =>
                 hook'.retriggeredAt = seq.fired.hook * SixteenthsOf("8n")
       /\ hook' # hook => Counters' = Counters
    ]_vars

\* a second startHook was ignored, and the one loop has just run on a later eighth
\* while the drum counter went its own way
C29_Witness ==
  /\ hook.state = "on"
  /\ hook.startsIgnored
  /\ hook.last = "tick"
  /\ hook.timeline = {1}
  /\ hook.retriggers = 1
  /\ hook.retriggeredAt >= 4
  /\ seq.drumStep >= 4

====
